---- MODULE Spec2Model ----
(***************************************************************************)
(* Model of tatsu.http.HTTPClient: the rate-limited request pipeline.      *)
(*                                                                         *)
(* The calls run as asyncio tasks on one event loop, so the code between   *)
(* two awaits is one atomic step.  Each action below is one such step of   *)
(* one call; the clock and close() are steps of the environment.           *)
(***************************************************************************)
EXTENDS Integers, FiniteSets, Sequences, TLC

(* ---- bounds of the model ---- *)
NumCalls == 3
MaxTime == 71
Max429 == 2
MaxSegments == 2

(* ---- constants of the program ---- *)
MaxTries == 5
Window == 61
MinAmount == 1
MaxAmount == 100000

Calls == 1..NumCalls
None == -1
TickSteps == {10, Window}
Statuses == {200, 204, 403, 429}
Bodies == {"b1", "b2"}
Amounts == {MinAmount - 1, MinAmount, MaxAmount, MaxAmount + 1}
Offsets == {-1, 0}
Periods == {"all", "year"}
NoResponse == [status |-> 0, body |-> "none"]

VARIABLES
    time,            \* the clock read by datetime.now() and by asyncio.sleep
    gate,            \* _ratelimit_unlock.is_set()
    resetTime,       \* _ratelimit_reset_time, None when absent
    session,         \* _session: "none", "open" or "closed"
    sessionsCreated, \* number of aiohttp.ClientSession() constructions
    pc,              \* where each call is suspended
    api,             \* the endpoint method and argument each call came through
    tries,           \* requests issued by the call (loop iterations entered)
    sleeps,          \* post-429 sleeps the call has begun
    waitDelta,       \* wait_delta of the call's latest 429, in seconds
    wakeAt,          \* the instant the call's asyncio.sleep timer is due
    response,        \* the latest response the call received
    outcome,         \* how the call ended
    value,           \* the bytes returned or the status carried by the error
    ahead,           \* woken waiters queued on the loop before the call's response
    served429,       \* number of 429 responses the server has given
    headers,         \* kwargs["headers"] of each call
    sent,            \* the headers of the call's latest request
    route            \* the Route built last

vars == <<time, gate, resetTime, session, sessionsCreated, pc, api, tries,
          sleeps, waitDelta, wakeAt, response, outcome, value, ahead,
          served429, headers, sent, route>>

clientVars == <<gate, resetTime, session, sessionsCreated>>

(* ---- pure pieces of request() ---- *)

\* _ratelimit_unlock.clear() and .set()
EventClear(g) == FALSE
EventSetForgotten(g) == g
EventSet(g) == TRUE

\* if not self._ratelimit_reset_time or self._ratelimit_reset_time < now
ResetExpiredOrDue(reset, now) == reset = None \/ reset <= now
ResetExpired(reset, now) == reset = None \/ reset < now

NewResetTimeExtended(reset, now) ==
    IF reset = None THEN now + Window ELSE reset + Window
NewResetTime(reset, now) ==
    IF ResetExpired(reset, now) THEN now + Window ELSE reset

\* wait_delta = self._ratelimit_reset_time - now
WaitDeltaFull(reset, now) == Window
WaitDelta(reset, now) == reset - now

\* aiohttp's ClientResponse.raise_for_status(): raises for status >= 400
raise_for_status(status) == status >= 400

\* if response.status not in (200, 429): response.raise_for_status()
RaisesHTTPError(status) == status \notin {200, 429} /\ raise_for_status(status)

\* for _tries in range(5): another iteration is left after `done` of them
TriesLeftOffByOne(done) == done <= MaxTries
TriesLeft(done) == done < MaxTries

\* the amount check of modify_guild_member_points / _score
BadAmountNoUpper(amount) == amount < MinAmount
BadAmount(amount) == amount < MinAmount \/ amount > MaxAmount

\* the offset check of get_guild_rankings
BadOffset(offset) == offset < 0

\* get_guild_member_ranking checks nothing about period
BadPeriod(period) == FALSE

\* if response.status == 429
IsRateLimitedOrError(status) == status = 429 \/ status >= 400
IsRateLimited(status) == status = 429

\* _start_session: (not self._session) or self._session.closed
NoUsableSessionEver(sess) == TRUE
NoUsableSession(sess) == sess \in {"none", "closed"}

\* self.token and self.user_agent
Token == "token"
UserAgent == "Tatsu"
NoHeaders == [k \in {} |-> ""]

\* headers = kwargs.pop("headers", {}); headers["User-Agent"] = ...;
\* headers["Authorization"] = ...
RequiredHeadersKeepGiven(given) ==
    [k \in DOMAIN given \cup {"User-Agent", "Authorization"} |->
        IF k \in DOMAIN given THEN given[k]
        ELSE IF k = "User-Agent" THEN UserAgent ELSE Token]
RequiredHeaders(given) ==
    [k \in DOMAIN given \cup {"User-Agent", "Authorization"} |->
        IF k = "User-Agent" THEN UserAgent
        ELSE IF k = "Authorization" THEN Token ELSE given[k]]

(* ---- Route ---- *)

\* A path template is a sequence of segments: literal text or a {name}
\* placeholder.  A parameter value is an int or a str, held as its characters.
Lit(text) == [kind |-> "lit", name |-> text, chars |-> <<>>]
Placeholder(name) == [kind |-> "ph", name |-> name, chars |-> <<>>]
Names == {"guild_id", "time_range"}
Segments == {Lit("guilds")} \cup {Placeholder(n) : n \in Names}
Paths == UNION {[1..n -> Segments] : n \in 1..MaxSegments}
ParamValues == {[isStr |-> FALSE, chars |-> <<"7">>],
                [isStr |-> TRUE, chars |-> <<"a", " ", "/">>]}
ParamMaps == UNION {[D -> ParamValues] : D \in SUBSET Names}

\* urllib.parse.quote with its default safe="/": unreserved characters and
\* "/" are kept, the rest becomes %XX
QuoteChar(ch) == IF ch = " " THEN <<"%", "2", "0">> ELSE <<ch>>

RECURSIVE quote(_)
quote(str) == IF str = <<>> THEN <<>> ELSE QuoteChar(Head(str)) \o quote(Tail(str))

\* {k: quote(v) if isinstance(v, str) else v for k, v in parameters.items()}
Quoted(parameters) ==
    [k \in DOMAIN parameters |->
        IF parameters[k].isStr THEN quote(parameters[k].chars)
        ELSE parameters[k].chars]

\* str.format_map: every {name} is replaced by the text of mapping[name];
\* a name missing from the mapping raises KeyError
MissingKeys(url, mapping) ==
    {url[i].name : i \in {j \in 1..Len(url) : url[j].kind = "ph"}} \ DOMAIN mapping

format_map(url, mapping) ==
    [i \in 1..Len(url) |->
        IF url[i].kind = "ph"
        THEN [kind |-> "val", name |-> url[i].name, chars |-> mapping[url[i].name]]
        ELSE url[i]]

\* urljoin(self.BASE, path): the relative path is appended to the base
urljoin(base, path) == <<Lit(base)>> \o path

\* `if parameters:` an empty mapping is falsy
Formats(parameters) == DOMAIN parameters # {}

\* Route.__init__
NewRoute(path, parameters) ==
    LET url == urljoin("https://api.tatsu.gg/v1/", path)
    IN IF Formats(parameters)
       THEN IF MissingKeys(url, Quoted(parameters)) # {}
            THEN [built |-> FALSE, error |-> "KeyError", path |-> path,
                  params |-> parameters, url |-> <<>>]
            ELSE [built |-> TRUE, error |-> "none", path |-> path,
                  params |-> parameters,
                  url |-> format_map(url, Quoted(parameters))]
       ELSE [built |-> TRUE, error |-> "none", path |-> path,
             params |-> parameters, url |-> url]

NoRoute == [built |-> FALSE, error |-> "none", path |-> <<>>,
            params |-> NoHeaders, url |-> <<>>]

\* the calls are numbered in the order they are made
NextCaller(c) == \A p \in 1..(c - 1) : pc[p] # "idle"

Woken == {c \in Calls : pc[c] = "woken"}
Waiting == {c \in Calls : pc[c] = "gatewait"}

\* Event.set() resolves the future of every waiter; those woken earlier and
\* not yet run stay queued.
WokenBySetNobody == Woken
WokenBySet == Woken \cup Waiting

TypeOK ==
    /\ time \in 0..MaxTime
    /\ gate \in BOOLEAN
    /\ resetTime \in {None} \cup (0..(MaxTime + Window))
    /\ session \in {"none", "open", "closed"}
    /\ sessionsCreated \in 0..NumCalls
    /\ pc \in [Calls -> {"idle", "gatewait", "woken", "inflight", "sleeping", "done"}]
    /\ tries \in [Calls -> 0..MaxTries]
    /\ sleeps \in [Calls -> 0..MaxTries]
    /\ outcome \in [Calls -> {"none", "body", "HTTPError", "Unreachable",
                              "ValueError", "SessionClosed"}]

Init ==
    /\ time = 0
    /\ gate = TRUE
    /\ resetTime = None
    /\ session \in {"none", "open"}
    /\ sessionsCreated = 0
    /\ pc = [c \in Calls |-> "idle"]
    /\ api = [c \in Calls |-> <<"none", 0>>]
    /\ tries = [c \in Calls |-> 0]
    /\ sleeps = [c \in Calls |-> 0]
    /\ waitDelta = [c \in Calls |-> 0]
    /\ wakeAt = [c \in Calls |-> 0]
    /\ response = [c \in Calls |-> NoResponse]
    /\ outcome = [c \in Calls |-> "none"]
    /\ value = [c \in Calls |-> "none"]
    /\ ahead = [c \in Calls |-> {}]
    /\ served429 = 0
    /\ headers = [c \in Calls |-> NoHeaders]
    /\ sent = [c \in Calls |-> NoHeaders]
    /\ route = NoRoute

(* ---- steps of a call ---- *)

\* The head of an attempt: self._session.request(...) on the session as it is
\* now.  aiohttp refuses a closed session with RuntimeError("Session is closed").
\* `woken` are the waiters whose wake-up is already queued on the loop.
Attempt(c, sess, woken, hdrs) ==
    IF sess = "open"
    THEN /\ pc' = [p \in Calls |-> IF p = c THEN "inflight"
                                   ELSE IF p \in woken THEN "woken" ELSE pc[p]]
         /\ tries' = [tries EXCEPT ![c] = @ + 1]
         /\ sent' = [sent EXCEPT ![c] = hdrs]
         /\ ahead' = [p \in Calls |-> IF p = c THEN woken ELSE ahead[p] \ {c}]
         /\ UNCHANGED <<outcome, value>>
    ELSE /\ pc' = [p \in Calls |-> IF p = c THEN "done"
                                   ELSE IF p \in woken THEN "woken" ELSE pc[p]]
         /\ outcome' = [outcome EXCEPT ![c] = "SessionClosed"]
         /\ ahead' = [p \in Calls |-> ahead[p] \ {c}]
         /\ UNCHANGED <<tries, value, sent>>

\* request() up to its first await that suspends: _start_session(), the gate
\* check, and either the wait on the gate or the first attempt.
\* `given` is the headers keyword argument of the caller.
RequestWith(c, how, given) ==
    /\ pc[c] = "idle"
    /\ NextCaller(c)
    /\ api' = [api EXCEPT ![c] = how]
    /\ headers' = [headers EXCEPT ![c] = RequiredHeaders(given)]
    /\ session' = IF NoUsableSession(session) THEN "open" ELSE session
    /\ sessionsCreated' = IF NoUsableSession(session)
                          THEN sessionsCreated + 1 ELSE sessionsCreated
    /\ IF ~gate
       THEN /\ pc' = [pc EXCEPT ![c] = "gatewait"]
            /\ UNCHANGED <<tries, ahead, outcome, value, sent>>
       ELSE Attempt(c, "open", Woken, RequiredHeaders(given))
    /\ UNCHANGED <<time, gate, resetTime, sleeps, waitDelta, wakeAt, response,
                   served429, route>>

\* request() called without a headers keyword argument
Request(c, how) == RequestWith(c, how, NoHeaders)

\* An endpoint method raising ValueError before request() is reached.
RaiseValueError(c, how) ==
    /\ pc[c] = "idle"
    /\ NextCaller(c)
    /\ api' = [api EXCEPT ![c] = how]
    /\ pc' = [pc EXCEPT ![c] = "done"]
    /\ outcome' = [outcome EXCEPT ![c] = "ValueError"]
    /\ UNCHANGED <<time, clientVars, tries, sleeps, waitDelta, wakeAt, response,
                   value, ahead, served429, headers, sent, route>>

\* The wake-up of a call that was suspended in _ratelimit_unlock.wait(): it
\* goes on to the attempt loop.
Resume(c) ==
    /\ pc[c] = "woken"
    /\ Attempt(c, session, Woken \ {c}, headers[c])
    /\ UNCHANGED <<time, clientVars, api, sleeps, waitDelta, wakeAt, response,
                   served429, headers, route>>

\* The body of `async with ... as response` for the response to the call's
\* request in flight: the reset-time maintenance, then the 429 branch (clear the
\* gate, start the sleep), the raise_for_status branch, or the read and return.
\* A response to a request issued after a waiter was woken reaches its task
\* only after that waiter has run.
Respond(c, status, body) ==
    /\ pc[c] = "inflight"
    /\ ahead[c] = {}
    /\ LET now == time
           reset == NewResetTime(resetTime, now)
       IN /\ resetTime' = reset
          /\ response' = [response EXCEPT ![c] = [status |-> status, body |-> body]]
          /\ served429' = IF status = 429 THEN served429 + 1 ELSE served429
          /\ IF IsRateLimited(status)
             THEN /\ gate' = EventClear(gate)
                  /\ waitDelta' = [waitDelta EXCEPT ![c] = WaitDelta(reset, now)]
                  /\ wakeAt' = [wakeAt EXCEPT ![c] = time + WaitDelta(reset, now)]
                  /\ sleeps' = [sleeps EXCEPT ![c] = @ + 1]
                  /\ pc' = [pc EXCEPT ![c] = "sleeping"]
                  /\ UNCHANGED <<outcome, value>>
             ELSE /\ pc' = [pc EXCEPT ![c] = "done"]
                  /\ IF RaisesHTTPError(status)
                     THEN /\ outcome' = [outcome EXCEPT ![c] = "HTTPError"]
                          /\ value' = [value EXCEPT ![c] = ToString(status)]
                     ELSE /\ outcome' = [outcome EXCEPT ![c] = "body"]
                          /\ value' = [value EXCEPT ![c] = body]
                  /\ waitDelta' = [waitDelta EXCEPT ![c] = 0]
                  /\ wakeAt' = [wakeAt EXCEPT ![c] = 0]
                  /\ UNCHANGED <<gate, sleeps>>
    /\ UNCHANGED <<time, session, sessionsCreated, api, tries, ahead, headers,
                   sent, route>>

\* The end of asyncio.sleep(wait_delta): set the gate, which wakes every call
\* suspended on it, then `continue`: the next attempt, or the RuntimeError
\* after the loop.
SleepDone(c) ==
    /\ pc[c] = "sleeping"
    /\ time >= wakeAt[c]
    /\ gate' = EventSet(gate)
    /\ IF TriesLeft(tries[c])
       THEN Attempt(c, session, WokenBySet, headers[c])
       ELSE /\ pc' = [p \in Calls |-> IF p = c THEN "done"
                                      ELSE IF p \in WokenBySet THEN "woken"
                                      ELSE pc[p]]
            /\ outcome' = [outcome EXCEPT ![c] = "Unreachable"]
            /\ UNCHANGED <<tries, value, ahead, sent>>
    /\ waitDelta' = [waitDelta EXCEPT ![c] = 0]
    /\ wakeAt' = [wakeAt EXCEPT ![c] = 0]
    /\ UNCHANGED <<time, resetTime, session, sessionsCreated, api, sleeps,
                   response, served429, headers, route>>

(* ---- the endpoint methods ---- *)

get_guild_member_points(c) == Request(c, <<"get_guild_member_points", 0>>)

modify_guild_member_points(c, amount) ==
    IF BadAmount(amount)
    THEN RaiseValueError(c, <<"modify_guild_member_points", amount>>)
    ELSE Request(c, <<"modify_guild_member_points", amount>>)

modify_guild_member_score(c, amount) ==
    IF BadAmount(amount)
    THEN RaiseValueError(c, <<"modify_guild_member_score", amount>>)
    ELSE Request(c, <<"modify_guild_member_score", amount>>)

get_guild_member_ranking(c, period) ==
    IF BadPeriod(period)
    THEN RaiseValueError(c, <<"get_guild_member_ranking", period>>)
    ELSE Request(c, <<"get_guild_member_ranking", period>>)

get_guild_rankings(c, offset) ==
    IF BadOffset(offset)
    THEN RaiseValueError(c, <<"get_guild_rankings", offset>>)
    ELSE Request(c, <<"get_guild_rankings", offset>>)

get_user_profile(c) == Request(c, <<"get_user_profile", 0>>)

(* ---- the environment ---- *)

\* HTTPClient.close()
Close ==
    /\ session = "open"
    /\ session' = "closed"
    /\ UNCHANGED <<time, gate, resetTime, sessionsCreated, pc, api, tries, sleeps,
                   waitDelta, wakeAt, response, outcome, value, ahead,
                   served429, headers, sent, route>>

Tick(d) ==
    /\ time + d <= MaxTime
    /\ time' = time + d
    /\ UNCHANGED <<clientVars, pc, api, tries, sleeps, waitDelta, wakeAt,
                   response, outcome, value, ahead, served429, headers, sent,
                   route>>

\* Time passes until the timer of some sleeping call is due.
TickToTimer ==
    /\ \E c \in Calls : /\ pc[c] = "sleeping"
                        /\ wakeAt[c] > time
                        /\ time' = wakeAt[c]
    /\ UNCHANGED <<clientVars, pc, api, tries, sleeps, waitDelta, wakeAt,
                   response, outcome, value, ahead, served429, headers, sent,
                   route>>

\* Route(method, path, **parameters)
BuildRoute(path, parameters) ==
    /\ route' = NewRoute(path, parameters)
    /\ UNCHANGED <<time, clientVars, pc, api, tries, sleeps, waitDelta, wakeAt,
                   response, outcome, value, ahead, served429, headers, sent>>

\* the server gives at most Max429 rate-limit answers
Within429(status) == status = 429 => served429 < Max429

\* Concurrent calls of request() on one client.
Next ==
    \/ \E c \in Calls : Request(c, <<"request", 0>>)
    \/ \E c \in Calls : Resume(c)
    \/ \E c \in Calls, s \in {200, 403, 429} :
          Within429(s) /\ Respond(c, s, "b1")
    \/ \E c \in Calls : SleepDone(c)
    \/ Close
    \/ \E d \in TickSteps : Tick(d)

Spec == Init /\ [][Next]_vars

\* One call of request() at a time, every status and body.
Solo == {1}

NextSolo ==
    \/ \E c \in Solo : Request(c, <<"request", 0>>)
    \/ \E c \in Solo, s \in Statuses, b \in Bodies : Respond(c, s, b)
    \/ \E c \in Solo : SleepDone(c)
    \/ Close
    \/ \E d \in TickSteps : Tick(d)

SpecSolo == Init /\ [][NextSolo]_vars

\* Concurrent calls on a session that stays open, with a transport that
\* answers every request, a clock that advances and an event loop that runs
\* every task that is ready.
Answer(c) == \E s \in {200, 403, 429} : Within429(s) /\ Respond(c, s, "b1")

NextLive ==
    \/ \E c \in Calls : Request(c, <<"request", 0>>)
    \/ \E c \in Calls : Resume(c)
    \/ \E c \in Calls : Answer(c)
    \/ \E c \in Calls : SleepDone(c)
    \/ TickToTimer

SpecLive ==
    /\ Init
    /\ [][NextLive]_vars
    /\ \A c \in Calls : WF_vars(Resume(c))
    /\ \A c \in Calls : WF_vars(Answer(c))
    /\ \A c \in Calls : WF_vars(SleepDone(c))
    /\ WF_vars(TickToTimer)

\* One call of request() with a headers keyword argument.
HeaderKeys == {"Authorization", "User-Agent", "X-Extra"}
CallerHeaders == UNION {[D -> {"caller"}] : D \in SUBSET HeaderKeys}

NextHeaders ==
    \/ \E c \in Solo, given \in CallerHeaders :
          RequestWith(c, <<"request", given>>, given)
    \/ \E c \in Solo, s \in {200, 429} : Respond(c, s, "b1")
    \/ \E c \in Solo : SleepDone(c)
    \/ \E d \in TickSteps : Tick(d)

SpecHeaders == Init /\ [][NextHeaders]_vars

\* Routes built from every template and parameter mapping.
NextRoute == \E path \in Paths, parameters \in ParamMaps : BuildRoute(path, parameters)

SpecRoute == Init /\ [][NextRoute]_vars

\* The endpoint methods, called by two callers.
Pair == {1, 2}

NextApi ==
    \/ \E c \in Pair : get_guild_member_points(c)
    \/ \E c \in Pair, a \in Amounts : modify_guild_member_points(c, a)
    \/ \E c \in Pair, a \in Amounts : modify_guild_member_score(c, a)
    \/ \E c \in Pair, p \in Periods : get_guild_member_ranking(c, p)
    \/ \E c \in Pair, o \in Offsets : get_guild_rankings(c, o)
    \/ \E c \in Pair : get_user_profile(c)
    \/ \E c \in Pair : Resume(c)
    \/ \E c \in Pair, s \in {200, 403, 429} :
          Within429(s) /\ Respond(c, s, "b1")
    \/ \E c \in Pair : SleepDone(c)
    \/ Close
    \/ \E d \in TickSteps : Tick(d)

SpecApi == Init /\ [][NextApi]_vars

\* Two concurrent calls of request(), any number of 429 answers.
NextPair ==
    \/ \E c \in Pair : Request(c, <<"request", 0>>)
    \/ \E c \in Pair : Resume(c)
    \/ \E c \in Pair, s \in {200, 429} : Respond(c, s, "b1")
    \/ \E c \in Pair : SleepDone(c)
    \/ Close
    \/ \E d \in TickSteps : Tick(d)

SpecPair == Init /\ [][NextPair]_vars

(* ======================= the claims ======================= *)

Issues(c) == tries'[c] > tries[c]
Responded(c) == pc[c] = "inflight" /\ pc'[c] # "inflight"
Started(c) == pc[c] = "idle" /\ pc'[c] # "idle"

\* C1: while the gate is closed no call issues a request, be it a first
\* attempt or a retry: every step that issues a request leaves the gate open.
C1_NoRequestWhileGateClosed ==
    [][\A c \in Calls : Issues(c) => gate']_vars

\* C2: a call that was suspended on the gate issues its first request only
\* when the gate is open at that moment.
C2_WaiterIssuesOnOpenGate ==
    [][\A c \in Calls : (pc[c] = "woken" /\ pc'[c] = "inflight") => gate]_vars

\* C3: while any call is in its post-429 sleep, its wait not yet over, the
\* gate is closed.
C3_SleeperKeepsGateClosed ==
    \A c \in Calls : (pc[c] = "sleeping" /\ time < wakeAt[c]) => ~gate

\* C4: the gate is closed only while some call is in the wait that follows
\* its 429, and it is open when the client has just been created.
C4_ClosedGateHasSleeper ==
    /\ ~gate => \E c \in Calls : pc[c] = "sleeping"
    /\ (\A c \in Calls : pc[c] = "idle") => gate

C4_Witness ==
    /\ ~gate
    /\ \E c, w \in Calls : pc[c] = "sleeping" /\ pc[w] = "gatewait"

\* C5: processing a response replaces the reset deadline exactly when it is
\* absent or earlier than the receipt time, by receipt time + 61; nothing else
\* changes it.
C5_ResetTimeReplacedOnlyWhenExpired ==
    [][/\ resetTime' # resetTime =>
            /\ resetTime = None \/ resetTime < time
            /\ resetTime' = time + 61
            /\ \E c \in Calls : Responded(c)
       /\ \A c \in Calls : Responded(c) =>
            resetTime' = IF resetTime = None \/ resetTime < time
                         THEN time + 61 ELSE resetTime]_vars

\* a response at T+70 replaced the deadline T+61 set at T = 0
C5_Witness ==
    /\ time = 70
    /\ resetTime = 131
    /\ \E c \in Calls : tries[c] > 0 /\ pc[c] \in {"sleeping", "done"}

\* C6: every response whose status is neither 200 nor 429 ends the call with
\* an HTTP error carrying that status.
C6_OtherStatusRaisesHTTPError ==
    \A c \in Calls :
        response[c].status \notin {0, 200, 429} =>
            /\ pc[c] = "done"
            /\ outcome[c] = "HTTPError"
            /\ value[c] = ToString(response[c].status)

\* C7: a single call answered by k 429s and then a 200 has issued k + 1
\* requests, slept k times and returns the body of the 200; each sleep lasts
\* deadline - now, so its timer is due at the deadline.
C7_RetriesThenBody ==
    \A c \in Solo :
        /\ (outcome[c] = "body" /\ response[c].status = 200) =>
               /\ served429 <= 4
               /\ tries[c] = served429 + 1
               /\ sleeps[c] = served429
               /\ value[c] = response[c].body
        /\ pc[c] = "sleeping" =>
               /\ wakeAt[c] = resetTime
               /\ waitDelta[c] \in 0..61
               /\ sleeps[c] = served429

C7_Witness ==
    /\ outcome[1] = "body"
    /\ response[1].status = 200
    /\ served429 = 2
    /\ tries[1] = 3
    /\ value[1] = "b2"

\* C8: a call issues at most 5 requests, and ends with the error raised
\* after the loop exactly when all 5 of its attempts were answered by a 429.
C8_ExhaustedIffFive429 ==
    \A c \in Solo :
        /\ tries[c] <= 5
        /\ outcome[c] = "Unreachable" <=>
               (pc[c] = "done" /\ tries[c] = 5 /\ served429 = 5)
        /\ outcome[c] = "Unreachable" => response[c].status = 429

C8_Witness ==
    /\ outcome[1] = "Unreachable"
    /\ tries[1] = 5
    /\ sleeps[1] = 5

AmountOutOfRange(how) ==
    /\ how[1] \in {"modify_guild_member_points", "modify_guild_member_score"}
    /\ how[2] < 1 \/ how[2] > 100000

OffsetNegative(how) == how[1] = "get_guild_rankings" /\ how[2] < 0

\* C9: a modify call with amount outside [1, 100000] and a rankings call with
\* offset < 0 end with the validation error at once: no request, no session
\* created, gate and reset deadline unchanged.
C9_ValidationBeforeRequest ==
    [][\A c \in Calls :
          (Started(c) /\ (AmountOutOfRange(api'[c]) \/ OffsetNegative(api'[c]))) =>
              /\ pc'[c] = "done"
              /\ outcome'[c] = "ValueError"
              /\ tries'[c] = 0
              /\ gate' = gate
              /\ resetTime' = resetTime
              /\ session' = session
              /\ sessionsCreated' = sessionsCreated]_vars

C9_Witness ==
    /\ api[1] = <<"modify_guild_member_points", 100001>>
    /\ outcome[1] = "ValueError"
    /\ api[2][1] = "get_guild_rankings"
    /\ outcome[2] = "ValueError"
    /\ session = "none"

\* C10: get_guild_member_ranking with a period other than all, month, week
\* ends with the validation error and issues no request.
C10_PeriodValidated ==
    \A c \in Calls :
        (api[c][1] = "get_guild_member_ranking"
            /\ api[c][2] \notin {"all", "month", "week"}) =>
                /\ tries[c] = 0
                /\ pc[c] = "done" => outcome[c] = "ValueError"

MissingParameter(r) ==
    \E i \in 1..Len(r.path) :
        r.path[i].kind = "ph" /\ r.path[i].name \notin DOMAIN r.params

\* C11: building a Route fails whenever the template has a placeholder with
\* no entry in the parameters, the empty mapping included, and no Route is
\* built whose URL still holds a {name}.
C11_MissingPlaceholderFails ==
    /\ MissingParameter(route) => (~route.built /\ route.error = "KeyError")
    /\ route.built => \A i \in 1..Len(route.url) : route.url[i].kind # "ph"

\* C12: a call creates a session only when there is none or it is closed,
\* and then exactly one; calls that find an open session use it and create
\* none.
C12_SessionCreatedOnce ==
    [][/\ sessionsCreated' # sessionsCreated =>
            /\ session # "open"
            /\ sessionsCreated' = sessionsCreated + 1
            /\ session' = "open"
       /\ \A c \in Calls : (Started(c) /\ outcome'[c] # "ValueError") =>
            /\ session' = "open"
            /\ sessionsCreated' =
                 IF session = "open" THEN sessionsCreated ELSE sessionsCreated + 1]_vars

C12_Witness ==
    /\ sessionsCreated = 1
    /\ session = "open"
    /\ \A c \in Calls : pc[c] = "inflight"

\* C13: every request of a call, retries included, carries the token under
\* Authorization and the client identifier under User-Agent, whatever the
\* caller gave for these keys, and keeps the caller's other headers.
C13_RequiredHeadersOnEveryAttempt ==
    \A c \in Calls : tries[c] > 0 =>
        /\ DOMAIN sent[c] = DOMAIN api[c][2] \cup {"Authorization", "User-Agent"}
        /\ sent[c]["Authorization"] = "token"
        /\ sent[c]["User-Agent"] = "Tatsu"
        /\ \A k \in DOMAIN api[c][2] \ {"Authorization", "User-Agent"} :
              sent[c][k] = api[c][2][k]

C13_Witness ==
    /\ tries[1] = 3
    /\ pc[1] = "inflight"
    /\ DOMAIN api[1][2] = {"Authorization", "User-Agent", "X-Extra"}
    /\ sent[1]["X-Extra"] = "caller"
    /\ sent[1]["Authorization"] = "token"

\* C15: at every response the reset deadline lies between the receipt time
\* and the receipt time + 61, under any interleaving, and every wait computed
\* on a 429 is between 0 and 61 seconds.
C15_DeadlineWithinOneWindow ==
    /\ [][\A c \in Calls : Responded(c) =>
            /\ resetTime' >= time
            /\ resetTime' <= time + 61
            /\ response'[c].status = 429 =>
                  /\ waitDelta'[c] = resetTime' - time
                  /\ waitDelta'[c] >= 0
                  /\ waitDelta'[c] <= 61]_vars
    /\ [](resetTime # None => resetTime <= time + 61)

\* two calls in their waits on the same deadline, the second one received
\* its 429 10 s after the first
C15_Witness ==
    \E c, d \in Calls :
        /\ pc[c] = "sleeping" /\ waitDelta[c] = 61
        /\ pc[d] = "sleeping" /\ waitDelta[d] = 51
        /\ wakeAt[c] = wakeAt[d]

C17_GateOpenWhenIdle ==
    (\A c \in Calls : pc[c] \in {"idle", "done"}) => gate

\* both calls have ended, one of them by the error after its fifth 429
C17_Witness ==
    /\ \A c \in Pair : pc[c] = "done"
    /\ \E c \in Pair : outcome[c] = "Unreachable" /\ sleeps[c] = 5
    /\ \E c \in Pair : outcome[c] = "body" /\ sleeps[c] > 0

\* C18: the gate changes only by closing on a 429 response and by reopening
\* at the end of a post-429 sleep: a response with another status, an HTTP
\* error and a validation error leave it as it was.
C18_GateChangesOnlyAround429 ==
    [][/\ (gate /\ ~gate') =>
            \E c \in Calls : Responded(c) /\ response'[c].status = 429
       /\ (~gate /\ gate') =>
            \E c \in Calls : pc[c] = "sleeping" /\ pc'[c] # "sleeping"
       /\ \A c \in Calls :
            \/ Responded(c) /\ response'[c].status # 429
            \/ outcome'[c] # outcome[c] /\ outcome'[c] \in {"HTTPError", "ValueError"}
            => gate' = gate]_vars

\* a call ended with an HTTP error while the gate was closed by another
C18_Witness ==
    /\ ~gate
    /\ \E c \in Calls : outcome[c] = "HTTPError"
    /\ \E c \in Calls : pc[c] = "sleeping"

\* C19: every attempt of every call is made on a session that is open at
\* that moment, also for a call that was suspended on the gate or slept
\* after a 429 while close() ran.
C19_AttemptsOnOpenSession ==
    [][\A c \in Calls :
          \/ pc[c] = "woken" /\ pc'[c] # "woken"
          \/ pc[c] = "sleeping" /\ pc'[c] # "sleeping" /\ tries[c] < 5
          => session = "open"]_vars

====
